---- MODULE Spec2Model ----
(***************************************************************************)
(* The pothole-report HTTP service of src/server.js: the User and Report   *)
(* collections, the uploads directory, and the six /api route handlers.    *)
(* A handler that awaits the document store is split at the await when     *)
(* other requests can observe the state in between (submit, delete,        *)
(* register); the store's own operations (insert, findOne, find,           *)
(* findByIdAndUpdate, findByIdAndDelete) are atomic.                       *)
(***************************************************************************)
EXTENDS Integers, Sequences, FiniteSets, TLC

\* ------------------------------------------------------------------ bounds
MaxReports == 2      \* Report documents constructed in a run (ids 1..MaxReports)
MaxFiles == 2        \* uploads accepted in a run (generated names 1..MaxFiles)
MaxTime == 2         \* the clock runs over 1..MaxTime
MaxUsers == 2        \* User documents constructed in a run

\* --------------------------------------------------------------- constants
FileSizeLimit == 5242880        \* limits.fileSize, 5 * 1024 * 1024

\* JavaScript null / undefined in a Date, Number or filename field.  Dates,
\* coordinates and generated filenames of the model are all >= 1.
NULL == 0
\* The Number NaN, as parseFloat returns it for a non-numeric string.
NaN == -1
\* A path segment :id that is not a 24-hex-digit ObjectId string.  The ids
\* 1, 2, ... stand for well-formed ObjectId strings.
BadId == 0

severityEnum == {"low", "medium", "high"}
statusEnum == {"pending", "in-progress", "resolved"}
roleEnum == {"citizen", "admin"}

\* ------------------------------------------------------------------- state
VARIABLES
    users,      \* the User collection: a set of documents
    regs,       \* registrations between `new User(req.body)` and the insert
    reports,    \* the Report collection, in insertion (natural) order
    files,      \* names of the files in the uploads directory
    subs,       \* submissions between `new Report(...)` and the insert
    dels,       \* deletes between findByIdAndDelete and the file removal
    nextId,     \* next ObjectId a `new Report` gets
    nextFile,   \* next generated upload filename
    nextUid,    \* next ObjectId a `new User` gets
    now,        \* the clock (Date.now())
    req,        \* the request the last step served
    res         \* the response the last step sent; code 0: none yet

vars == <<users, regs, reports, files, subs, dels, nextId, nextFile, nextUid, now, req, res>>

Range(s) == {s[i] : i \in 1..Len(s)}

Ids(s) == {s[i]._id : i \in 1..Len(s)}

Response(code, body) == [code |-> code, body |-> body]

Error(code, msg) == Response(code, [error |-> msg])

NoBody == [empty |-> TRUE]

\* ----------------------------------------------------------- upload filter
\* allowedTypes = /jpeg|jpg|png|gif/ tested against the lower-cased extension
\* and against the declared media type.
fileFilter(ext, mimetype) ==
    /\ ext \in {".jpeg", ".jpg", ".png", ".gif"}
    /\ mimetype \in {"image/jpeg", "image/jpg", "image/png", "image/gif"}

NoFile == [present |-> FALSE, ext |-> "", mimetype |-> "", size |-> 0]

Png == [present |-> TRUE, ext |-> ".png", mimetype |-> "image/png", size |-> 1024]

\* The attachments tried: none, an image, a file of another type, an image
\* over the size limit.
Uploads ==
    { NoFile,
      Png,
      [present |-> TRUE, ext |-> ".pdf", mimetype |-> "application/pdf", size |-> 1024],
      [present |-> TRUE, ext |-> ".jpg", mimetype |-> "image/jpeg", size |-> 6000000] }

\* upload.single('image'): the file passes the filter and the size limit.
UploadAccepted(file) ==
    /\ fileFilter(file.ext, file.mimetype)
    /\ file.size <= FileSizeLimit

\* An upload that is turned down: the error goes to next(err), the route
\* handler never runs, and the default error handler answers 500.
UploadError(file) ==
    Error(500, IF fileFilter(file.ext, file.mimetype)
                 THEN "File too large"
                 ELSE "Only image files are allowed!")

\* A storage that hands out the name without the file being on disk yet.
DiskStorageSkip(dir, name) == dir

\* storage: the accepted file is written under the generated name.
DiskStorage(dir, name) == dir \cup {name}

\* ------------------------------------------------------------ POST /api/reports
RequiredFields == {"location", "description", "reportedBy", "severity"}

ValidBody ==
    [location |-> "Main St", description |-> "Pothole", severity |-> "low",
     imageDescription |-> "crack", reportedBy |-> "alice",
     latitude |-> "77abc", longitude |-> ""]

\* The request bodies tried: a complete one, one with each required field
\* empty, an unknown severity, a non-numeric coordinate.
SubmitBodies ==
    { ValidBody,
      [ValidBody EXCEPT !.severity = "extreme"],
      [ValidBody EXCEPT !.latitude = "abc"] }
    \cup { [ValidBody EXCEPT ![f] = ""] : f \in RequiredFields }

\* The requests tried: every body without a file and with an image, and a
\* complete and an incomplete body with each upload the filter turns down.
SubmitRequests ==
    { [body |-> b, file |-> f] : b \in SubmitBodies, f \in {NoFile, Png} }
    \cup { [body |-> b, file |-> f] :
             b \in {ValidBody, [ValidBody EXCEPT !.severity = ""]},
             f \in Uploads \ {NoFile, Png} }

\* The check without its last operand.
MissingRequiredNoSeverity(body) ==
    \/ body.location = ""
    \/ body.description = ""
    \/ body.reportedBy = ""

\* !location || !description || !reportedBy || !severity
MissingRequired(body) ==
    \/ body.location = ""
    \/ body.description = ""
    \/ body.reportedBy = ""
    \/ body.severity = ""

\* parseFloat on the strings the bodies carry: the longest numeric prefix,
\* NaN when there is none.
parseFloat(s) ==
    CASE s = "12" -> 12
      [] s = "77abc" -> 77
      [] OTHER -> NaN

\* latitude ? parseFloat(latitude) : null
Coordinate(s) == IF s = "" THEN NULL ELSE parseFloat(s)

\* new Report({...}): the schema defaults fill status; resolvedAt stays unset.
NewReport(id, body, filename, t) ==
    [_id |-> id,
     reportedBy |-> body.reportedBy,
     location |-> body.location,
     latitude |-> Coordinate(body.latitude),
     longitude |-> Coordinate(body.longitude),
     description |-> body.description,
     severity |-> body.severity,
     status |-> "pending",
     imageDescription |-> body.imageDescription,
     imageFilename |-> filename,
     reportedAt |-> t,
     resolvedAt |-> NULL]

\* ReportSchema validation on save: the severity and status enums, and the
\* Number cast of the coordinates, which NaN fails.
ReportValid(doc) ==
    /\ doc.severity \in severityEnum
    /\ doc.status \in statusEnum
    /\ doc.latitude # NaN
    /\ doc.longitude # NaN

\* upload.single('image') followed, in the same tick, by the handler up to
\* its `await newReport.save()`.
SubmitReceive(body, file) ==
    LET rejected == file.present /\ ~UploadAccepted(file)
        stored == file.present /\ ~rejected
        missing == MissingRequired(body)
        filename == IF stored THEN nextFile ELSE NULL
    IN  /\ stored => nextFile <= MaxFiles
        /\ (~rejected /\ ~missing) => nextId <= MaxReports
        /\ req' = [op |-> "POST", body |-> body, file |-> file]
        /\ files' = IF stored THEN DiskStorage(files, nextFile) ELSE files
        /\ nextFile' = IF stored THEN nextFile + 1 ELSE nextFile
        /\ IF rejected
             THEN /\ res' = UploadError(file)
                  /\ UNCHANGED <<subs, nextId>>
             ELSE IF missing
               THEN /\ res' = Error(400, "Missing required fields (location, description, severity).")
                    /\ UNCHANGED <<subs, nextId>>
               ELSE /\ subs' = subs \cup {NewReport(nextId, body, filename, now)}
                    /\ nextId' = nextId + 1
                    /\ res' = Response(0, NoBody)
        /\ UNCHANGED <<users, regs, nextUid, reports, dels, now>>

\* await newReport.save(): validation, then the insert.
SubmitSave(doc) ==
    /\ doc \in subs
    /\ subs' = subs \ {doc}
    /\ req' = [op |-> "POST.save", id |-> doc._id]
    /\ IF ReportValid(doc)
         THEN /\ reports' = Append(reports, doc)
              /\ res' = Response(201, doc)
         ELSE /\ res' = Error(500, "Failed to create report.")
              /\ UNCHANGED reports
    /\ UNCHANGED <<users, regs, nextUid, files, dels, nextId, nextFile, now>>

\* ------------------------------------------------------------- GET /api/reports
\* Insert r into a list sorted by reportedAt descending, after its equals.
RECURSIVE InsertDesc(_, _)
InsertDesc(r, s) ==
    IF s = <<>> \/ r.reportedAt > Head(s).reportedAt
      THEN <<r>> \o s
      ELSE <<Head(s)>> \o InsertDesc(r, Tail(s))

\* A find() without the sort.
NaturalOrder(s) == s

\* .sort({ reportedAt: -1 })
RECURSIVE SortByReportedAt(_)
SortByReportedAt(s) ==
    IF s = <<>> THEN <<>>
    ELSE InsertDesc(s[Len(s)], SortByReportedAt(SubSeq(s, 1, Len(s) - 1)))

ListReports ==
    /\ req' = [op |-> "GET"]
    /\ res' = Response(200, SortByReportedAt(reports))
    /\ UNCHANGED <<users, regs, nextUid, reports, files, subs, dels, nextId, nextFile, now>>

\* --------------------------------------------------------- PUT /api/reports/:id
PathIds == {BadId} \cup (1..MaxReports)

StatusValues == {"", "pending", "in-progress", "resolved", "closed"}

\* updateFields without the else branch that clears resolvedAt.
UpdateFieldsAlwaysStamp(status, t) == [status |-> status, resolvedAt |-> t]

\* updateFields = { status, resolvedAt: status === 'resolved' ? new Date() : null }
UpdateFields(status, t) ==
    [status |-> status, resolvedAt |-> IF status = "resolved" THEN t ELSE NULL]

\* An update without runValidators.
SkipValidators(update) == TRUE

\* runValidators: the update's status must be in the schema's enum.
RunValidators(update) == update.status \in statusEnum

\* An update that overwrites the document's optional fields as well.
ReplaceDocument(doc, update) ==
    [doc EXCEPT !.status = update.status, !.resolvedAt = update.resolvedAt,
                !.imageFilename = NULL, !.latitude = NULL, !.longitude = NULL]

\* The update sets the fields it names and nothing else.
ApplyUpdate(doc, update) ==
    [doc EXCEPT !.status = update.status, !.resolvedAt = update.resolvedAt]

\* The handler.  findByIdAndUpdate casts the id to an ObjectId and, with
\* runValidators, validates the update before the store is asked; either
\* failure rejects, and the catch block answers 500.
UpdateStatus(id, status) ==
    LET update == UpdateFields(status, now)
    IN  /\ req' = [op |-> "PUT", id |-> id, status |-> status]
        /\ IF status = ""
             THEN /\ res' = Error(400, "Missing required field: status.")
                  /\ UNCHANGED reports
             ELSE IF id = BadId \/ ~RunValidators(update)
               THEN /\ res' = Error(500, "Failed to update report.")
                    /\ UNCHANGED reports
               ELSE IF id \notin Ids(reports)
                 THEN /\ res' = Error(404, "Report not found.")
                      /\ UNCHANGED reports
                 ELSE /\ reports' = [i \in 1..Len(reports) |->
                                       IF reports[i]._id = id
                                         THEN ApplyUpdate(reports[i], update)
                                         ELSE reports[i]]
                      /\ res' = Response(200, CHOOSE r \in Range(reports') : r._id = id)
        /\ UNCHANGED <<users, regs, nextUid, files, subs, dels, nextId, nextFile, now>>

\* ------------------------------------------------------ DELETE /api/reports/:id
\* A delete that finds the document and leaves it in the collection.
KeepAll(s, id) == s

\* The collection without the document of that id.
RemoveById(s, id) == SelectSeq(s, LAMBDA r : r._id # id)

\* The handler up to the file step: await Report.findByIdAndDelete(id),
\* which rejects an id that is no ObjectId (the catch block answers 500).
DeleteFind(id) ==
    /\ req' = [op |-> "DELETE", id |-> id]
    /\ IF id = BadId
         THEN /\ res' = Error(500, "Failed to delete report.")
              /\ UNCHANGED <<reports, dels>>
         ELSE IF id \notin Ids(reports)
           THEN /\ res' = Error(404, "Report not found.")
                /\ UNCHANGED <<reports, dels>>
           ELSE /\ reports' = RemoveById(reports, id)
                /\ dels' = dels \cup {CHOOSE r \in Range(reports) : r._id = id}
                /\ res' = Response(0, NoBody)
    /\ UNCHANGED <<users, regs, nextUid, files, subs, nextId, nextFile, now>>

\* A handler that ignores a throwing unlinkSync.
SwallowUnlinkError(thrown) == Response(204, NoBody)

\* What the handler answers after the file step: a throwing unlinkSync lands
\* in the catch block.
DeleteAnswer(thrown) ==
    IF thrown THEN Error(500, "Failed to delete report.") ELSE Response(204, NoBody)

\* The rest of the handler: existsSync, unlinkSync, the response.  unlinkSync
\* can throw (permissions, a read-only directory); the file then stays.
DeleteFinish(doc, unlinkThrows) ==
    LET attempt == doc.imageFilename # NULL /\ doc.imageFilename \in files
        thrown == attempt /\ unlinkThrows
    IN  /\ doc \in dels
        /\ ~attempt => ~unlinkThrows
        /\ dels' = dels \ {doc}
        /\ req' = [op |-> "DELETE.file", id |-> doc._id,
                   imageFilename |-> doc.imageFilename, thrown |-> thrown]
        /\ files' = IF attempt /\ ~thrown THEN files \ {doc.imageFilename} ELSE files
        /\ res' = DeleteAnswer(thrown)
        /\ UNCHANGED <<users, regs, nextUid, reports, subs, nextId, nextFile, now>>

\* ------------------------------------------------------------ POST /api/register
Alice ==
    [fullName |-> "Alice A", email |-> "a@x.org", username |-> "alice",
     password |-> "pw1", role |-> ""]

\* The bodies tried: two usernames, two emails, two passwords, with and
\* without a role, and one body failing each schema rule.
RegisterBodies ==
    { [Alice EXCEPT !.username = u, !.email = e, !.password = p, !.role = r] :
        u \in {"alice", "bob"}, e \in {"a@x.org", "b@x.org"},
        p \in {"pw1", "pw2"}, r \in {"", "admin"} }
    \cup { [Alice EXCEPT !.fullName = ""], [Alice EXCEPT !.password = ""],
           [Alice EXCEPT !.role = "root"], [Alice EXCEPT !.username = ""],
           [Alice EXCEPT !.email = ""] }

\* new User(req.body): the schema default fills an absent role.
NewUser(id, body) ==
    [_id |-> id,
     fullName |-> body.fullName,
     email |-> body.email,
     username |-> body.username,
     password |-> body.password,
     role |-> IF body.role = "" THEN "citizen" ELSE body.role]

\* UserSchema validation on save: the required fields and the role enum.
UserValid(doc) ==
    /\ doc.fullName # ""
    /\ doc.email # ""
    /\ doc.username # ""
    /\ doc.password # ""
    /\ doc.role \in roleEnum

\* A unique index on username alone.
DuplicateUsernameOnly(coll, doc) == \E u \in coll : u.username = doc.username

\* The unique indexes on username and on email (error code 11000).
DuplicateKey(coll, doc) ==
    \E u \in coll : u.username = doc.username \/ u.email = doc.email

\* The handler up to its `await newUser.save()`.
RegisterReceive(body) ==
    /\ nextUid <= MaxUsers
    /\ regs' = regs \cup {NewUser(nextUid, body)}
    /\ nextUid' = nextUid + 1
    /\ req' = [op |-> "register", body |-> body]
    /\ res' = Response(0, NoBody)
    /\ UNCHANGED <<users, reports, files, subs, dels, nextId, nextFile, now>>

\* await newUser.save(): validation, then the insert under the unique indexes.
RegisterSave(doc) ==
    /\ doc \in regs
    /\ regs' = regs \ {doc}
    /\ req' = [op |-> "register.save", doc |-> doc]
    /\ IF ~UserValid(doc)
         THEN /\ res' = Error(500, "Registration failed.")
              /\ UNCHANGED users
         ELSE IF DuplicateKey(users, doc)
           THEN /\ res' = Error(409, "Username or email already exists.")
                /\ UNCHANGED users
           ELSE /\ users' = users \cup {doc}
                /\ res' = Response(201, [message |-> "User registered successfully!"])
    /\ UNCHANGED <<reports, files, subs, dels, nextId, nextFile, nextUid, now>>

\* --------------------------------------------------------------- POST /api/login
\* The user object as stored.
KeepPassword(user) == user

\* const { password: _, ...userWithoutPass } = user.toObject()
StripPassword(user) == [f \in DOMAIN user \ {"password"} |-> user[f]]

Login(username, password) ==
    LET found == {u \in users : u.username = username}
    IN  /\ req' = [op |-> "login", username |-> username, password |-> password]
        /\ IF found = {} \/ (CHOOSE u \in found : TRUE).password # password
             THEN res' = Error(401, "Invalid username or password.")
             ELSE res' = Response(200, [user |-> StripPassword(CHOOSE u \in found : TRUE)])
        /\ UNCHANGED <<users, regs, reports, files, subs, dels, nextId, nextFile,
                       nextUid, now>>

\* ------------------------------------------------------------------- clock
Tick ==
    /\ now < MaxTime
    /\ now' = now + 1
    /\ req' = [op |-> "tick"]
    /\ res' = Response(0, NoBody)
    /\ UNCHANGED <<users, regs, nextUid, reports, files, subs, dels, nextId, nextFile>>

\* ------------------------------------------------------------ specification
Init ==
    /\ users = {}
    /\ regs = {}
    /\ reports = <<>>
    /\ files = {}
    /\ subs = {}
    /\ dels = {}
    /\ nextId = 1
    /\ nextFile = 1
    /\ nextUid = 1
    /\ now = 1
    /\ req = [op |-> "none"]
    /\ res = Response(0, NoBody)

Next ==
    \/ \E r \in SubmitRequests : SubmitReceive(r.body, r.file)
    \/ \E doc \in subs : SubmitSave(doc)
    \/ ListReports
    \/ \E id \in PathIds, status \in StatusValues : UpdateStatus(id, status)
    \/ \E id \in PathIds : DeleteFind(id)
    \/ \E doc \in dels, unlinkThrows \in BOOLEAN : DeleteFinish(doc, unlinkThrows)
    \/ Tick

Spec == Init /\ [][Next]_vars

\* The registration and login routes on their own.
NextUsers ==
    \/ \E body \in RegisterBodies : RegisterReceive(body)
    \/ \E doc \in regs : RegisterSave(doc)
    \/ \E username \in {"alice", "bob"}, password \in {"pw1", "pw2", ""} :
         Login(username, password)

SpecUsers == Init /\ [][NextUsers]_vars

\* =================================================================== claims
StoredFields ==
    {"_id", "reportedBy", "location", "latitude", "longitude", "description",
     "severity", "status", "imageDescription", "imageFilename", "reportedAt",
     "resolvedAt"}

\* C1: in every reachable state, every stored Report has a non-null
\* resolvedAt if and only if its status is 'resolved'.
C1_ResolvedAtIffResolved ==
    \A r \in Range(reports) : (r.resolvedAt # NULL) <=> (r.status = "resolved")

\* A status update to 'resolved' has been served and stamped the report.
C1_Witness ==
    /\ req.op = "PUT"
    /\ res.code = 200
    /\ res.body.status = "resolved"
    /\ res.body.resolvedAt # NULL
    /\ res.body \in Range(reports)

C3_Lacking == req'.op = "POST" /\ \E f \in RequiredFields : req'.body[f] = ""

\* C3 as stated: a POST lacking a required field responds 400 and creates
\* no Report, whatever the attachment.
C3_Original ==
    [][C3_Lacking => (res'.code = 400 /\ reports' = reports /\ subs' = subs)]_vars

\* C3 as amended: a POST lacking a required field creates no Report; it
\* responds 400 when it carries no file or a file the upload filter accepts
\* (an allowed image type of at most 5 MiB), and 500 when the upload is
\* turned down.
C3_MissingFieldCreatesNothing ==
    [][C3_Lacking =>
         /\ reports' = reports
         /\ subs' = subs
         /\ LET f == req'.file
                turnedDown ==
                    /\ f.present
                    /\ \/ f.ext \notin {".jpeg", ".jpg", ".png", ".gif"}
                       \/ f.mimetype \notin {"image/jpeg", "image/jpg", "image/png", "image/gif"}
                       \/ f.size > FileSizeLimit
            IN  res'.code = IF turnedDown THEN 500 ELSE 400]_vars

\* A POST with an accepted image and an empty severity was answered 400.
C3_Witness ==
    /\ req.op = "POST"
    /\ req.body.severity = ""
    /\ req.file = Png
    /\ res.code = 400

\* A DELETE whose id matches no stored report changes nothing.
C4_Frame ==
    (req'.op = "DELETE" /\ req'.id \notin Ids(reports))
        => UNCHANGED <<reports, files, subs, dels, users>>

\* A DELETE of a stored report removes it and no other.
C4_Removes ==
    (req'.op = "DELETE" /\ req'.id \in Ids(reports))
        => /\ reports' = SelectSeq(reports, LAMBDA r : r._id # req'.id)
           /\ files' = files

\* A report that has left the store never returns, and a listing holds
\* stored reports only.
C4_StaysGone ==
    /\ \A id \in 1..MaxReports :
         (id < nextId /\ id \notin Ids(reports) /\ id \notin {d._id : d \in subs})
             => id \notin Ids(reports')
    /\ req'.op = "GET" => Ids(res'.body) \subseteq Ids(reports)

\* The file step of a delete touches no report and no other file.
C4_OtherFiles ==
    req'.op = "DELETE.file"
        => /\ reports' = reports
           /\ files' \subseteq files
           /\ files \ files' \subseteq {req'.imageFilename}

C5_Unique ==
    \A u, v \in users : (u.username = v.username \/ u.email = v.email) => u = v

\* A registration reaching the store with a taken username or email.
C5_Taken ==
    /\ req'.op = "register.save"
    /\ \E u \in users : u.username = req'.doc.username \/ u.email = req'.doc.email

\* C5 as stated: usernames and emails stay unique, and a registration with
\* a taken username or email responds 409 and leaves the Users as they were.
C5_Original ==
    /\ []C5_Unique
    /\ [][C5_Taken => (res'.code = 409 /\ users' = users)]_vars

\* C5 as amended: usernames and emails stay unique, and a registration with
\* a taken username or email leaves the Users as they were; it responds 409
\* when it passes the schema validation (fullName, email, username and
\* password present, role citizen, admin or absent) and 500 when it does not.
C5_UniqueUsers ==
    /\ []C5_Unique
    /\ [][C5_Taken =>
            /\ users' = users
            /\ LET d == req'.doc
                   wellFormed ==
                       /\ d.fullName # "" /\ d.email # ""
                       /\ d.username # "" /\ d.password # ""
                       /\ d.role \in {"citizen", "admin"}
               IN  res'.code = IF wellFormed THEN 409 ELSE 500]_vars

\* A registration with a new username and a taken email was answered 409
\* while the first holder of the email is stored.
C5_Witness ==
    /\ req.op = "register.save"
    /\ res.code = 409
    /\ \E u \in users : u.email = req.doc.email /\ u.username # req.doc.username

\* C6: a login answers 200 exactly when a User with that username and that
\* password is stored, with that User's record less the password field; in
\* every other case, unknown username or wrong password alike, it answers
\* the one 401 'Invalid username or password.'; it never changes the Users.
C6_Login ==
    [][req'.op = "login" =>
         /\ users' = users
         /\ LET match == {u \in users : u.username = req'.username
                                        /\ u.password = req'.password}
            IN  IF match = {}
                  THEN res' = Error(401, "Invalid username or password.")
                  ELSE /\ res'.code = 200
                       /\ "password" \notin DOMAIN res'.body.user
                       /\ \E u \in match :
                            /\ DOMAIN res'.body.user = DOMAIN u \ {"password"}
                            /\ \A f \in DOMAIN res'.body.user : res'.body.user[f] = u[f]]_vars

\* A login with a stored username and another password was answered 401.
C6_Witness ==
    /\ req.op = "login"
    /\ res.code = 401
    /\ \E u \in users : u.username = req.username /\ u.password # req.password

\* C7: a listing holds exactly the stored reports, each once, and every
\* element's reportedAt is at least that of the element after it.
C7_ListSorted ==
    req.op = "GET"
        => /\ Len(res.body) = Len(reports)
           /\ Range(res.body) = Range(reports)
           /\ \A i \in 1..(Len(res.body) - 1) :
                res.body[i].reportedAt >= res.body[i + 1].reportedAt

\* A listing of two reports whose insertion order is not the listing order.
C7_Witness ==
    /\ req.op = "GET"
    /\ Len(reports) = 2
    /\ reports[1].reportedAt < reports[2].reportedAt
    /\ res.body = <<reports[2], reports[1]>>

\* What C8 says of the three refusals and of the success, but for the 404.
C8_Rest ==
    LET id == req'.id
        status == req'.status
    IN  /\ status = "" => res'.code = 400
        /\ (status # "" /\ status \notin {"pending", "in-progress", "resolved"})
               => res'.code = 500
        /\ res'.code # 200 => reports' = reports
        /\ res'.code = 200
               <=> (status \in {"pending", "in-progress", "resolved"}
                    /\ id \in Ids(reports))

\* C8 as stated: 400 without a status, 404 for an id that matches no stored
\* report, an error for a status outside the enum, no Report changed in
\* these cases, and 200 only for a valid status and an existing id.
C8_Original ==
    [][req'.op = "PUT" =>
         /\ C8_Rest
         /\ (req'.status \in {"pending", "in-progress", "resolved"}
             /\ req'.id \notin Ids(reports)) => res'.code = 404]_vars

\* C8 as amended: 400 without a status; with a valid status, 404 for a
\* well-formed id that matches no stored report and 500 for a malformed id;
\* 500 for a status outside the enum; no Report changed in these cases; and
\* 200 only for a valid status and an existing id.
C8_Refusals ==
    [][req'.op = "PUT" =>
         /\ C8_Rest
         /\ (req'.status \in {"pending", "in-progress", "resolved"}
             /\ req'.id \notin Ids(reports))
                => res'.code = IF req'.id = BadId THEN 500 ELSE 404]_vars

\* A status outside the enum was refused for a stored report.
C8_Witness ==
    /\ req.op = "PUT"
    /\ req.status = "closed"
    /\ req.id \in Ids(reports)
    /\ res.code = 500

\* C9: a status update answered 200 changes the status and resolvedAt of
\* the addressed report and nothing else; a target status other than
\* 'resolved' leaves resolvedAt null.
C9_UpdateFrame ==
    [][(req'.op = "PUT" /\ res'.code = 200) =>
         /\ UNCHANGED <<users, regs, files, subs, dels>>
         /\ Len(reports') = Len(reports)
         /\ \A i \in 1..Len(reports) :
              IF reports[i]._id = req'.id
                THEN /\ \A f \in StoredFields \ {"status", "resolvedAt"} :
                          reports'[i][f] = reports[i][f]
                     /\ reports'[i].status = req'.status
                     /\ req'.status # "resolved" => reports'[i].resolvedAt = NULL
                ELSE reports'[i] = reports[i]]_vars

\* A report with an image and coordinates was set to 'pending' while a
\* second report is stored.
C9_Witness ==
    /\ req.op = "PUT"
    /\ res.code = 200
    /\ req.status = "pending"
    /\ res.body.imageFilename # NULL
    /\ res.body.latitude # NULL
    /\ Len(reports) = 2

\* C10: every stored Report with an imageFilename names a file that is in
\* File Storage, under any interleaving of submissions and deletes.
C10_ImagePresent ==
    \A r \in Range(reports) : r.imageFilename # NULL => r.imageFilename \in files

\* A report with its image is stored while a delete of another report
\* with an image waits for its file step.
C10_Witness ==
    /\ \E r \in Range(reports) : r.imageFilename # NULL
    /\ \E d \in dels : d.imageFilename # NULL /\ d.imageFilename \in files

====
